---------------------------- MODULE Spec2Model ----------------------------
(***************************************************************************)
(* Model of pirate-api (src/src/main.rs): the two validated value types    *)
(* UserName and Email, their fallible constructors and accessors, and the  *)
(* /user/create route that deserialises a CreateUser record through them.  *)
(*                                                                         *)
(* A Rust String is modelled as the sequence of its Unicode scalar values  *)
(* (code points, as integers).  String::len() is the UTF-8 byte length,    *)
(* computed from the code points as Rust's char::len_utf8 does;            *)
(* chars() enumerates the sequence itself.                                 *)
(***************************************************************************)
EXTENDS Integers, Sequences, FiniteSets, TLC

VARIABLES
    kind,      \* which value type the value-object run exercises
    raw,       \* the String handed to the constructor
    value,     \* the constructor's result for raw (None before the call)
    read,      \* the last text returned by get() on the constructed value
    again,     \* the result of the constructor on the text get() returned
    other,     \* the result of the latest constructor call on another input
    pc,        \* position of the /user/create request being served
    body,      \* the JSON body of the request: the two raw strings, key order
    fieldIx,   \* index in body.keys of the next field to deserialise
    username,  \* CreateUser.username once deserialised
    email,     \* CreateUser.email once deserialised
    handler,   \* number of times create_user ran for the current request
    response   \* HTTP status produced for the current request (0: none yet)

vars == << kind, raw, value, read, again, other,
           pc, body, fieldIx, username, email, handler, response >>

valueVars  == << kind, raw, value, read, again, other >>
serverVars == << pc, body, fieldIx, username, email, handler, response >>

----------------------------------------------------------------------------
(* Bounds of the checked input families.                                   *)

\* longest run of the filler character in a generated username
MaxRun == 33
\* longest run of filler after the first special character
MaxTail == 2
\* longest run of the filler character in a generated e-mail local part
MaxLocal == 66

----------------------------------------------------------------------------
(* Strings.                                                                *)

\* char::len_utf8
Utf8Len(c) == IF c < 128 THEN 1 ELSE IF c < 2048 THEN 2 ELSE IF c < 65536 THEN 3 ELSE 4

RECURSIVE ByteLen(_)
\* String::len(): the number of bytes of the UTF-8 encoding
ByteLen(s) == IF s = << >> THEN 0 ELSE Utf8Len(Head(s)) + ByteLen(Tail(s))

\* s.chars().count()
CharLen(s) == Len(s)

\* str::contains(char)
StrContains(s, c) == \E i \in 1..Len(s) : s[i] = c

Rep(c, n) == [i \in 1..n |-> c]

\* Result / Option values.  payload is the wrapped String of Ok, the
\* one-character String carried by InvalidCharacter, and empty otherwise.
None == [tag |-> "None", payload |-> << >>]
Ok(s) == [tag |-> "Ok", payload |-> s]
Err(e, p) == [tag |-> e, payload |-> p]
IsOk(r) == r.tag = "Ok"

----------------------------------------------------------------------------
(* UserName (main.rs 63-104).                                              *)

\* let INVALID_CHARS = "!..$%&/()=?";   the two characters after '!' in the
\* source file are U+0E22 and U+0E07 (bytes E0 B8 A2 E0 B8 87).
INVALID_CHARS == << 33, 3618, 3591, 36, 37, 38, 47, 40, 41, 61, 63 >>

RECURSIVE ScanChars(_, _)
\* for char in username.chars() { if INVALID_CHARS.contains(char) { return Err } }
\* Ok(Self(username))
ScanChars(rest, whole) ==
    IF rest = << >> THEN Ok(whole)
    ELSE IF StrContains(INVALID_CHARS, Head(rest))
         THEN Err("InvalidCharacter", << Head(rest) >>)
         ELSE ScanChars(Tail(rest), whole)

\* mutant: the upper bound written as > 32
UserName_try_new_gt(s) ==
    IF ByteLen(s) < 12 THEN Err("TooShort", << >>)
    ELSE IF ByteLen(s) > 32 THEN Err("TooLong", << >>)
    ELSE ScanChars(s, s)

\* mutant: the accepted text is stored without its last character
UserName_try_new_cut(s) ==
    IF ByteLen(s) < 12 THEN Err("TooShort", << >>)
    ELSE IF ByteLen(s) >= 32 THEN Err("TooLong", << >>)
    ELSE ScanChars(s, SubSeq(s, 1, Len(s) - 1))

\* UserName::try_new
UserName_try_new(s) ==
    IF ByteLen(s) < 12 THEN Err("TooShort", << >>)
    ELSE IF ByteLen(s) >= 32 THEN Err("TooLong", << >>)
    ELSE ScanChars(s, s)

\* UserName::get
UserName_get(v) == v.payload

\* impl TryFrom<String> for UserName
UserName_try_from(s) == UserName_try_new(s)

----------------------------------------------------------------------------
(* Email (main.rs 34-61).                                                  *)
(*                                                                         *)
(* EmailAddress::is_valid belongs to the email_address crate, whose code   *)
(* is not in this repository.  The definitions from IsAlphanumeric to      *)
(* EmailAddress_is_valid state the address grammar the specification       *)
(* describes (sections 3, 4.1 and 8): local-part, '@', domain; dot-atom or *)
(* quoted local part of at most 64 bytes; dot-atom domain, one label       *)
(* suffices; no second unquoted '@'; bracketed forms rejected.             *)

IsAlphanumeric(c) ==
    \/ c \in 48..57
    \/ c \in 65..90
    \/ c \in 97..122

\* atext: letters, digits, the printable specials of a dot-atom, non-ASCII
IsAText(c) ==
    \/ IsAlphanumeric(c)
    \/ c \in {33, 35, 36, 37, 38, 39, 42, 43, 45, 47, 61, 63, 94, 95, 96, 123, 124, 125, 126}
    \/ c >= 128

\* qtext: printable ASCII except '"' and '\', blanks, non-ASCII
IsQText(c) ==
    \/ c \in {32, 9, 33}
    \/ c \in 35..91
    \/ c \in 93..126
    \/ c >= 128

RECURSIVE SplitDot(_, _)
\* s.split('.'): the labels of s, cur being the label read so far
SplitDot(s, cur) ==
    IF s = << >> THEN << cur >>
    ELSE IF Head(s) = 46 THEN << cur >> \o SplitDot(Tail(s), << >>)
    ELSE SplitDot(Tail(s), Append(cur, Head(s)))

IsAtom(a) == a # << >> /\ \A i \in 1..Len(a) : IsAText(a[i])

IsDotAtomText(s) ==
    LET labels == SplitDot(s, << >>)
    IN  \A i \in 1..Len(labels) : IsAtom(labels[i])

RECURSIVE IsQContent(_)
\* the inside of a quoted local part: qtext, or '\' followed by a printable
IsQContent(s) ==
    IF s = << >> THEN TRUE
    ELSE IF Head(s) = 92
         THEN /\ Len(s) >= 2
              /\ s[2] \in 33..126
              /\ IsQContent(SubSeq(s, 3, Len(s)))
         ELSE IsQText(Head(s)) /\ IsQContent(Tail(s))

\* position of the last '@' of s, 0 when it has none
LastAt(s) ==
    IF \E i \in 1..Len(s) : s[i] = 64
    THEN CHOOSE i \in 1..Len(s) : s[i] = 64 /\ \A j \in (i + 1)..Len(s) : s[j] # 64
    ELSE 0

IsQuoted(p) == Len(p) >= 2 /\ p[1] = 34 /\ p[Len(p)] = 34

LocalPartValid(p) ==
    /\ p # << >>
    /\ ByteLen(p) <= 64
    /\ IF IsQuoted(p)
       THEN Len(p) > 2 /\ IsQContent(SubSeq(p, 2, Len(p) - 1))
       ELSE IsDotAtomText(p)

DomainValid(d) ==
    /\ d # << >>
    /\ ByteLen(d) <= 254
    /\ IsDotAtomText(d)
    /\ LET labels == SplitDot(d, << >>)
       IN  \A i \in 1..Len(labels) : ByteLen(labels[i]) <= 63

LocalPartOf(s, at) == SubSeq(s, 1, at - 1)
DomainOf(s, at) == SubSeq(s, at + 1, Len(s))

\* mutant: the stricter reading, a domain needs a dot (a top-level domain)
EmailAddress_is_valid_tld(s) ==
    LET at == LastAt(s)
    IN  /\ at # 0
        /\ LocalPartValid(LocalPartOf(s, at))
        /\ DomainValid(DomainOf(s, at))
        /\ StrContains(DomainOf(s, at), 46)

\* EmailAddress::is_valid
EmailAddress_is_valid(s) ==
    LET at == LastAt(s)
    IN  /\ at # 0
        /\ LocalPartValid(LocalPartOf(s, at))
        /\ DomainValid(DomainOf(s, at))

\* mutant: the accepted text is stored lower-cased
ToLower(s) == [i \in 1..Len(s) |-> IF s[i] \in 65..90 THEN s[i] + 32 ELSE s[i]]
Email_try_new_lower(s) ==
    IF EmailAddress_is_valid(s) THEN Ok(ToLower(s)) ELSE Err("EmailError", << >>)

\* Email::try_new
Email_try_new(s) ==
    IF EmailAddress_is_valid(s) THEN Ok(s) ELSE Err("EmailError", << >>)

\* Email::get
Email_get(v) == v.payload

\* impl TryFrom<String> for Email
Email_try_from(s) == Email_try_new(s)

----------------------------------------------------------------------------
(* Inputs.                                                                 *)

\* the username literals of test_username (main.rs 137-150)
TestUserNames == {
    \* "HelloWorldIAmTim"
    << 72, 101, 108, 108, 111, 87, 111, 114, 108, 100, 73, 65, 109, 84, 105, 109 >>,
    \* "HelloWorld123141IAmTim"
    << 72, 101, 108, 108, 111, 87, 111, 114, 108, 100, 49, 50, 51, 49, 52, 49, 73, 65, 109, 84, 105, 109 >>,
    \* "HelloWorld.....IAmTim"
    << 72, 101, 108, 108, 111, 87, 111, 114, 108, 100, 46, 46, 46, 46, 46, 73, 65, 109, 84, 105, 109 >>,
    \* "test"
    << 116, 101, 115, 116 >>,
    \* "?testhallowkfahfla"
    << 63, 116, 101, 115, 116, 104, 97, 108, 108, 111, 119, 107, 102, 97, 104, 102, 108, 97 >>,
    \* "halloweltichbindertimundichhasselangeusernames"
    << 104, 97, 108, 108, 111, 119, 101, 108, 116, 105, 99, 104, 98, 105, 110, 100, 101, 114, 116, 105, 109, 117, 110, 100, 105, 99, 104, 104, 97, 115, 115, 101, 108, 97, 110, 103, 101, 117, 115, 101, 114, 110, 97, 109, 101, 115 >>,
    \* "test!%$/"
    << 116, 101, 115, 116, 33, 37, 36, 47 >> }

\* the ten characters the specification forbids: ! § $ % & / ( ) = ?
SpecForbidden == {33, 167, 36, 37, 38, 47, 40, 41, 61, 63}

\* filler characters: 'a' (1 byte) and U+00E9 (2 bytes)
Fillers == {97, 233}

\* characters placed first in a generated username: the forbidden ones of
\* the specification and of the source, '.', a digit, U+20AC (3 bytes)
Specials == SpecForbidden \cup {3618, 3591, 46, 49, 8364}

Optional(S) == {<< >>} \cup {<< c >> : c \in S}

\* x f^a y f^b: a run of filler with a special in front and inside
GenUserNames ==
    { x \o Rep(f, a) \o y \o Rep(f, b) :
        x \in Optional(Specials), f \in Fillers, a \in 0..MaxRun,
        y \in Optional({63, 167, 46}), b \in 0..MaxTail }

UserNameInputs == TestUserNames \cup GenUserNames

\* the address literals of test_email (main.rs 112-124)
Email_s_example == << 101, 120, 97, 109, 112, 108, 101, 64, 115, 46, 101, 120, 97, 109, 112, 108, 101 >>
Email_mailserver1 == << 97, 100, 109, 105, 110, 64, 109, 97, 105, 108, 115, 101, 114, 118, 101, 114, 49 >>
Email_strange == << 101, 120, 97, 109, 112, 108, 101, 45, 105, 110, 100, 101, 101, 100, 64, 115, 116, 114, 97, 110, 103, 101, 45, 101, 120, 97, 109, 112, 108, 101, 46, 99, 111, 109 >>
\* this\ still"not\allowed@example.com
Email_not_allowed == << 116, 104, 105, 115, 92, 32, 115, 116, 105, 108, 108, 34, 110, 111, 116, 92, 97, 108, 108, 111, 119, 101, 100, 64, 101, 120, 97, 109, 112, 108, 101, 46, 99, 111, 109 >>
\* a"b(c)d,e:f;g<h>i[j\k]l@example.com
Email_specials == << 97, 34, 98, 40, 99, 41, 100, 44, 101, 58, 102, 59, 103, 60, 104, 62, 105, 91, 106, 92, 107, 93, 108, 64, 101, 120, 97, 109, 112, 108, 101, 46, 99, 111, 109 >>
\* A@b@c@example.com
Email_three_at == << 65, 64, 98, 64, 99, 64, 101, 120, 97, 109, 112, 108, 101, 46, 99, 111, 109 >>
\* Abc.example.com
Email_no_at == << 65, 98, 99, 46, 101, 120, 97, 109, 112, 108, 101, 46, 99, 111, 109 >>
\* 1234567890...1234+x@example.co (local part of 66 characters)
Email_long_local == << 49, 50, 51, 52, 53, 54, 55, 56, 57, 48, 49, 50, 51, 52, 53, 54, 55, 56, 57, 48, 49, 50, 51, 52, 53, 54, 55, 56, 57, 48, 49, 50, 51, 52, 53, 54, 55, 56, 57, 48, 49, 50, 51, 52, 53, 54, 55, 56, 57, 48, 49, 50, 51, 52, 53, 54, 55, 56, 57, 48, 49, 50, 51, 52, 43, 120, 64, 101, 120, 97, 109, 112, 108, 101, 46, 99, 111 >>

TestEmails == { Email_s_example, Email_mailserver1, Email_strange, Email_not_allowed,
                Email_specials, Email_three_at, Email_no_at, Email_long_local }

\* characters that may not stand unquoted in a local part:
\* space " ( ) , : ; < > @ [ \ ]
IllegalLocal == {32, 34, 40, 41, 44, 58, 59, 60, 62, 64, 91, 92, 93}

\* the domains of generated addresses: example.co, srv1 (one label), none
GenDomains == { << 101, 120, 97, 109, 112, 108, 101, 46, 99, 111 >>,
                << 115, 114, 118, 49 >>,
                << >> }

\* p x^n q [@ domain]: a run of 'x' with an optional character before and
\* after it; p or q both '"' gives a quoted local part
GenEmails ==
    { p \o Rep(120, n) \o q \o d :
        p \in Optional({34, 64, 65, 46}), n \in 0..MaxLocal,
        q \in Optional(IllegalLocal \cup {43, 233}),
        d \in {<< >>} \cup {<< 64 >> \o g : g \in GenDomains} }

EmailInputs == TestEmails \cup GenEmails

\* inputs of the constructor calls made while another value is held
OtherInputs == { << 116, 101, 115, 116 >>, Email_mailserver1, Rep(65, 12) }

----------------------------------------------------------------------------
(* The value objects: construction, accessor, construction again.          *)

Some(s) == [tag |-> "Some", payload |-> s]

NoBody == [username |-> << >>, email |-> << >>, keys |-> << >>]

ServerIdle ==
    /\ pc = "idle"
    /\ body = NoBody
    /\ fieldIx = 0
    /\ username = None
    /\ email = None
    /\ handler = 0
    /\ response = 0

Init ==
    /\ kind \in {"UserName", "Email"}
    /\ raw \in IF kind = "UserName" THEN UserNameInputs ELSE EmailInputs
    /\ value = None
    /\ read = None
    /\ again = None
    /\ other = None
    /\ ServerIdle

\* let v = UserName::try_new(raw)
UserNameTryNew ==
    /\ kind = "UserName"
    /\ value = None
    /\ value' = UserName_try_new(raw)
    /\ UNCHANGED << kind, raw, read, again, other >>
    /\ UNCHANGED serverVars

\* let v = Email::try_new(raw)
EmailTryNew ==
    /\ kind = "Email"
    /\ value = None
    /\ value' = Email_try_new(raw)
    /\ UNCHANGED << kind, raw, read, again, other >>
    /\ UNCHANGED serverVars

\* v.get() on an accepted UserName
UserNameGet ==
    /\ kind = "UserName"
    /\ IsOk(value)
    /\ read' = Some(UserName_get(value))
    /\ UNCHANGED << kind, raw, value, again, other >>
    /\ UNCHANGED serverVars

\* v.get() on an accepted Email
EmailGet ==
    /\ kind = "Email"
    /\ IsOk(value)
    /\ read' = Some(Email_get(value))
    /\ UNCHANGED << kind, raw, value, again, other >>
    /\ UNCHANGED serverVars

\* UserName::try_new(v.get().to_string())
UserNameAgain ==
    /\ kind = "UserName"
    /\ IsOk(value)
    /\ again' = UserName_try_new(UserName_get(value))
    /\ UNCHANGED << kind, raw, value, read, other >>
    /\ UNCHANGED serverVars

\* Email::try_new(v.get().to_string())
EmailAgain ==
    /\ kind = "Email"
    /\ IsOk(value)
    /\ again' = Email_try_new(Email_get(value))
    /\ UNCHANGED << kind, raw, value, read, other >>
    /\ UNCHANGED serverVars

\* a constructor call on another input while v is held
UserNameOther ==
    /\ kind = "UserName"
    /\ IsOk(value)
    /\ \E s \in OtherInputs : other' = UserName_try_new(s)
    /\ UNCHANGED << kind, raw, value, read, again >>
    /\ UNCHANGED serverVars

EmailOther ==
    /\ kind = "Email"
    /\ IsOk(value)
    /\ \E s \in OtherInputs : other' = Email_try_new(s)
    /\ UNCHANGED << kind, raw, value, read, again >>
    /\ UNCHANGED serverVars

Next ==
    \/ UserNameTryNew
    \/ EmailTryNew
    \/ UserNameGet
    \/ EmailGet
    \/ UserNameAgain
    \/ EmailAgain
    \/ UserNameOther
    \/ EmailOther

Spec == Init /\ [][Next]_vars

----------------------------------------------------------------------------
(* POST /user/create (main.rs 14-33): the Json<CreateUser> extractor       *)
(* deserialises the body field by field, in the order of the body's keys,  *)
(* each field through its TryFrom<String>; an error of a field ends the    *)
(* deserialisation and the extractor rejects the request, so that the      *)
(* handler is not called.                                                  *)

\* usernames and addresses of the requests
RequestUserNames ==
    TestUserNames \cup
    { Rep(f, a) \o y : f \in Fillers, a \in {12, MaxRun - 2, MaxRun - 1}, y \in Optional({63}) }

RequestEmails ==
    TestEmails \cup { Rep(120, MaxLocal - 2) \o << 64, 115, 114, 118, 49 >> }

KeyOrders == { << "username", "email" >>, << "email", "username" >> }

InitServer ==
    /\ kind = "UserName"
    /\ raw = << >>
    /\ value = None
    /\ read = None
    /\ again = None
    /\ other = None
    /\ ServerIdle

\* a request arrives with a JSON body holding both fields as strings
Receive ==
    /\ pc = "idle"
    /\ \E u \in RequestUserNames, e \in RequestEmails, k \in KeyOrders :
          body' = [username |-> u, email |-> e, keys |-> k]
    /\ pc' = "deserialize"
    /\ fieldIx' = 1
    /\ UNCHANGED << username, email, handler, response >>
    /\ UNCHANGED valueVars

\* mutant: a failed username is dropped and deserialisation goes on
DeserializeUserNameLenient ==
    /\ pc = "deserialize"
    /\ body.keys[fieldIx] = "username"
    /\ username' = UserName_try_from(body.username)
    /\ fieldIx' = fieldIx + 1
    /\ pc' = IF fieldIx = Len(body.keys) THEN "handler" ELSE "deserialize"
    /\ UNCHANGED << body, email, handler, response >>
    /\ UNCHANGED valueVars

\* username: UserName, #[serde(try_from = "String")]
DeserializeUserName ==
    /\ pc = "deserialize"
    /\ body.keys[fieldIx] = "username"
    /\ LET r == UserName_try_from(body.username)
       IN  IF IsOk(r)
           THEN /\ username' = r
                /\ fieldIx' = fieldIx + 1
                /\ pc' = IF fieldIx = Len(body.keys) THEN "handler" ELSE "deserialize"
                /\ UNCHANGED response
           ELSE /\ pc' = "rejected"
                /\ response' = 422
                /\ UNCHANGED << username, fieldIx >>
    /\ UNCHANGED << body, email, handler >>
    /\ UNCHANGED valueVars

\* email: Email, #[serde(try_from = "String")]
DeserializeEmail ==
    /\ pc = "deserialize"
    /\ body.keys[fieldIx] = "email"
    /\ LET r == Email_try_from(body.email)
       IN  IF IsOk(r)
           THEN /\ email' = r
                /\ fieldIx' = fieldIx + 1
                /\ pc' = IF fieldIx = Len(body.keys) THEN "handler" ELSE "deserialize"
                /\ UNCHANGED response
           ELSE /\ pc' = "rejected"
                /\ response' = 422
                /\ UNCHANGED << email, fieldIx >>
    /\ UNCHANGED << body, username, handler >>
    /\ UNCHANGED valueVars

\* async fn create_user(Json(create_user): Json<CreateUser>) -> StatusCode
CreateUser ==
    /\ pc = "handler"
    /\ handler' = handler + 1
    /\ response' = 200
    /\ pc' = "responded"
    /\ UNCHANGED << body, fieldIx, username, email >>
    /\ UNCHANGED valueVars

\* the response is sent and the record dropped
Finish ==
    /\ pc \in {"responded", "rejected"}
    /\ pc' = "idle"
    /\ body' = NoBody
    /\ fieldIx' = 0
    /\ username' = None
    /\ email' = None
    /\ handler' = 0
    /\ response' = 0
    /\ UNCHANGED valueVars

NextServer ==
    \/ Receive
    \/ DeserializeUserName
    \/ DeserializeEmail
    \/ CreateUser
    \/ Finish

ServerSpec == InitServer /\ [][NextServer]_vars

----------------------------------------------------------------------------
(* Properties.                                                             *)

\* a UserName constructor call has returned for raw
UserNameDone == kind = "UserName" /\ value # None
\* an Email constructor call has returned for raw
EmailDone == kind = "Email" /\ value # None

HasSpecForbidden(s) == \E i \in 1..Len(s) : s[i] \in SpecForbidden

\* the first character of s, left to right, that the specification forbids
FirstSpecForbidden(s) ==
    s[CHOOSE i \in 1..Len(s) :
        s[i] \in SpecForbidden /\ \A j \in 1..(i - 1) : s[j] \notin SpecForbidden]

\* C1: every UserName returned as Ok has at least 12 and at most 31
\* characters and holds none of the ten forbidden characters.
C1_OkSatisfiesInvariants ==
    (UserNameDone /\ IsOk(value)) =>
        /\ CharLen(UserName_get(value)) >= 12
        /\ CharLen(UserName_get(value)) <= 31
        /\ ~HasSpecForbidden(UserName_get(value))

\* C2: every input of fewer than 12 characters is rejected with TooShort,
\* whatever it contains.
C2_ShortIsTooShort ==
    (UserNameDone /\ CharLen(raw) < 12) => value = Err("TooShort", << >>)

C4_FirstForbiddenReported ==
    (UserNameDone /\ CharLen(raw) >= 12 /\ CharLen(raw) < 32 /\ HasSpecForbidden(raw)) =>
        value = Err("InvalidCharacter", << FirstSpecForbidden(raw) >>)

\* no character of s is forbidden, by the specification's list or by the
\* source's literal
NoForbiddenAtAll(s) ==
    \A i \in 1..Len(s) : s[i] \notin SpecForbidden /\ ~StrContains(INVALID_CHARS, s[i])

\* C5: the length checks count characters, not bytes: 12 characters without
\* a forbidden one are accepted, 12 to 31 such characters are never TooLong,
\* and 32 characters are TooLong, whatever the characters' UTF-8 widths.
\* (Stated for inputs free of every forbidden character, so that only the
\* length checks decide.)
C5_LengthInCharacters ==
    UserNameDone =>
        /\ (CharLen(raw) = 12 /\ NoForbiddenAtAll(raw)) => IsOk(value)
        /\ (CharLen(raw) >= 12 /\ CharLen(raw) <= 31 /\ NoForbiddenAtAll(raw)) =>
               value.tag # "TooLong"
        /\ CharLen(raw) = 32 => value.tag = "TooLong"

\* C6: only the ten listed characters are rejected: an input of 12 to 31
\* characters holding none of them is accepted.
C6_OnlyListedCharactersRejected ==
    (UserNameDone /\ CharLen(raw) >= 12 /\ CharLen(raw) < 32 /\ ~HasSpecForbidden(raw)) =>
        IsOk(value)

CountAt(s) == Cardinality({i \in 1..Len(s) : s[i] = 64})

\* the text before the last '@', the whole text when there is none
RawLocal(s) == IF CountAt(s) = 0 THEN s ELSE LocalPartOf(s, LastAt(s))

\* C7: Email::try_new returns Ok or the one EmailError; it rejects an
\* address with more than one unquoted '@', one without '@', one with an
\* illegal character in an unquoted local part, and one whose local part is
\* longer than 64; it accepts a valid local part at a one-label domain.
C7_EmailEdgePolicies ==
    EmailDone =>
        /\ value \in {Ok(raw), Err("EmailError", << >>)}
        /\ IsOk(value) <=> EmailAddress_is_valid(raw)
        /\ CountAt(raw) = 0 => ~IsOk(value)
        /\ (CountAt(raw) > 1 /\ ~StrContains(raw, 34)) => ~IsOk(value)
        /\ (~IsQuoted(RawLocal(raw)) /\ \E i \in 1..Len(RawLocal(raw)) : RawLocal(raw)[i] \in IllegalLocal)
               => ~IsOk(value)
        /\ CharLen(RawLocal(raw)) > 64 => ~IsOk(value)
        /\ raw \in {Email_not_allowed, Email_specials, Email_three_at, Email_no_at, Email_long_local}
               => ~IsOk(value)
        /\ raw \in {Email_s_example, Email_mailserver1, Email_strange} => IsOk(value)
        /\ ( /\ CountAt(raw) = 1
             /\ LocalPartValid(RawLocal(raw))
             /\ IsAtom(DomainOf(raw, LastAt(raw)))
             /\ CharLen(DomainOf(raw, LastAt(raw))) <= 63 ) => IsOk(value)

\* C7 witness: the one-label address admin@mailserver1 was accepted.
C7_Witness == EmailDone /\ raw = Email_mailserver1 /\ IsOk(value)

\* both raw strings of the request pass their constructors
BothValid == IsOk(UserName_try_new(body.username)) /\ IsOk(Email_try_new(body.email))

\* C8: a record whose username or email fails its constructor is rejected
\* at the first failing field, the later field is never constructed and
\* create_user never runs; create_user runs, once, and answers 200 only when
\* both constructors returned Ok.
C8_RejectedOrHandled ==
    /\ pc \in {"handler", "responded"} =>
           /\ BothValid
           /\ username = Ok(body.username)
           /\ email = Ok(body.email)
    /\ handler > 0 => (pc = "responded" /\ handler = 1 /\ response = 200)
    /\ response = 200 => (handler = 1 /\ BothValid)
    /\ pc = "rejected" =>
           /\ ~BothValid
           /\ handler = 0
           /\ response \in 400..499
           /\ body.keys[fieldIx] = "username" => ~IsOk(UserName_try_new(body.username))
           /\ body.keys[fieldIx] = "email" => ~IsOk(Email_try_new(body.email))
           /\ \A i \in (fieldIx + 1)..Len(body.keys) :
                  /\ body.keys[i] = "username" => username = None
                  /\ body.keys[i] = "email" => email = None

\* C8 witness: the first field was accepted, the second failed, and the
\* record was rejected without create_user having run.
C8_Witness ==
    /\ pc = "rejected"
    /\ fieldIx = 2
    /\ body.keys[1] = "email"
    /\ IsOk(email)
    /\ username = None
    /\ handler = 0

\* C9: the constructor called again on get() of an accepted value returns
\* Ok, wrapping text equal to get().
C9_Idempotent ==
    again # None =>
        /\ IsOk(value)
        /\ IsOk(again)
        /\ kind = "UserName" => UserName_get(again) = UserName_get(value)
        /\ kind = "Email" => Email_get(again) = Email_get(value)

\* C9 witness: an accepted value was validated again.
C9_Witness == IsOk(value) /\ again # None /\ kind = "UserName" /\ ByteLen(raw) = 12

\* C10: an accepted value wraps the raw input unchanged, and every get(),
\* also after constructor calls on other inputs, returns that same text.
C10_WrapsUnchanged ==
    /\ IsOk(value) =>
           /\ kind = "UserName" => UserName_get(value) = raw
           /\ kind = "Email" => Email_get(value) = raw
    /\ read # None => (IsOk(value) /\ read = Some(raw))

\* C10 witness: an address with an upper-case letter was accepted and read
\* after a constructor call on another input.
C10_Witness ==
    /\ kind = "Email"
    /\ IsOk(value)
    /\ \E i \in 1..Len(raw) : raw[i] \in 65..90
    /\ other # None
    /\ read = Some(raw)

=============================================================================
